---- MODULE Spec2Model ----
(***************************************************************************)
(* Model of the three tray wrappers of minimize-to-tray-wrapper:           *)
(*   tray_wrapper/main.py             ("tray":  one application, optional  *)
(*                                      window-class matcher, poll thread) *)
(*   minimize_to_tray_wrapper/main.py ("mini":  one application, lookup by *)
(*                                      PID only, poll thread)             *)
(*   multi_app_tray/main.py           ("multi": several applications,      *)
(*                                      lookup by class, no poll thread)   *)
(*                                                                         *)
(* Text is modelled as sequences of one-character strings, so that the     *)
(* parsing of the window listing (split, isdigit, int) is computed.        *)
(***************************************************************************)
EXTENDS Integers, Sequences, FiniteSets, TLC

VARIABLES
    variant,          \* "tray", "mini" or "multi": which program runs
    persist_on_exit,  \* --persist-on-exit (tray, mini)
    wm_class,         \* per application: the class matcher, <<>> when not given
    procs,            \* every child process started so far, in start order
    windows,          \* the windows on screen, in the order the tool lists them
    process,          \* per application: self.process / app['process'] (0: None)
    pid,              \* self.pid (tray, mini)
    window_id,        \* per application: self.window_id / app['window_id']
    first_launch,     \* self.first_launch (tray, mini)
    pc,               \* the position of the GUI thread (fg) and the poll thread (bg)
    cur,              \* the menu callback the GUI thread is in, with its locals
    mine,             \* per thread: the process its running launch started
    loop,             \* the GTK main loop
    asked,            \* who has called Gtk.main_quit(): "quit", "poll"
    lk,               \* the lookup run on its own: listing, arguments, result
    env,              \* main before the GUI exists: os.environ, and how far main is
    found             \* per thread: what the find_window() call of its launch returned

vars ==
    <<variant, persist_on_exit, wm_class, procs, windows, process, pid,
      window_id, first_launch, pc, cur, mine, loop, asked, lk, env, found>>

sysvars ==
    <<variant, persist_on_exit, wm_class, procs, windows, process, pid,
      window_id, first_launch, pc, cur, mine, loop, asked, found>>

----------------------------------------------------------------------------
(* Python values *)

\* Python's None, as returned by a failed lookup and stored in window_id.
None == -1

\* The marker of a ValueError raised by int().
ValueError == -2

\* Python truthiness of a window id: None and 0 are false.
Truthy(w) == w # None /\ w # 0

\* os.environ and main's position, where main's first part is not looked at.
NoEnv == [wayland |-> FALSE, backend |-> "x11", at |-> "gui"]

----------------------------------------------------------------------------
(* Text: str.split, str.isdigit, int, the in operator *)

DecDigits == <<"0","1","2","3","4","5","6","7","8","9">>

HexLower == DecDigits \o <<"a","b","c","d","e","f">>

HexUpper == DecDigits \o <<"A","B","C","D","E","F">>

IsSpace(c) == c = " "

IsDecDigit(c) == \E i \in 1..10 : DecDigits[i] = c

IsHexDigit(c) == \E i \in 1..16 : HexLower[i] = c \/ HexUpper[i] = c

HexDigitVal(c) == (CHOOSE i \in 1..16 : HexLower[i] = c \/ HexUpper[i] = c) - 1

\* s with its leading whitespace removed.
RECURSIVE LStrip(_)
LStrip(s) ==
    IF s # <<>> /\ IsSpace(Head(s)) THEN LStrip(Tail(s)) ELSE s

\* The length of the leading run of non-whitespace characters of s.
RECURSIVE WordLen(_)
WordLen(s) ==
    IF s = <<>> \/ IsSpace(Head(s)) THEN 0 ELSE 1 + WordLen(Tail(s))

\* str.split(None, maxsplit): fields separated by runs of whitespace; after
\* maxsplit splits the rest of the line (leading whitespace skipped) is the
\* last field.
RECURSIVE split(_, _)
split(s, maxsplit) ==
    LET t == LStrip(s)
    IN  IF t = <<>> THEN <<>>
        ELSE IF maxsplit = 0 THEN <<t>>
        ELSE LET n == WordLen(t)
             IN  <<SubSeq(t, 1, n)>> \o split(SubSeq(t, n + 1, Len(t)), maxsplit - 1)

\* str.isdigit(): non-empty and only decimal digits.
isdigit(s) == s # <<>> /\ \A i \in 1..Len(s) : IsDecDigit(s[i])

\* int(s) of a string of decimal digits.
RECURSIVE int10(_)
int10(s) ==
    IF s = <<>> THEN 0
    ELSE int10(SubSeq(s, 1, Len(s) - 1)) * 10 + HexDigitVal(s[Len(s)])

RECURSIVE HexValue(_)
HexValue(s) ==
    IF s = <<>> THEN 0
    ELSE HexValue(SubSeq(s, 1, Len(s) - 1)) * 16 + HexDigitVal(s[Len(s)])

\* int(s, 16): an optional 0x/0X prefix, then one or more hex digits;
\* anything else raises ValueError.
int16(s) ==
    LET pre == Len(s) >= 2 /\ s[1] = "0" /\ s[2] \in {"x", "X"}
        d   == IF pre THEN SubSeq(s, 3, Len(s)) ELSE s
    IN  IF d # <<>> /\ \A i \in 1..Len(d) : IsHexDigit(d[i])
        THEN HexValue(d)
        ELSE ValueError

\* sub in s: substring containment, case-sensitive.
Contains(s, sub) ==
    \E i \in 0..(Len(s) - Len(sub)) : SubSeq(s, i + 1, i + Len(sub)) = sub

----------------------------------------------------------------------------
(* Window lookup: the parsing of the listing tool's output.  An output is   *)
(* a record [ok, lines]: ok is FALSE when check_output raised (tool         *)
(* missing, non-zero exit); lines is output.splitlines().                   *)

\* A wrong find_window_by_pid: the PID is looked for in the second field.
RECURSIVE ScanByPidWrongField(_, _)
ScanByPidWrongField(lines, p) ==
    IF lines = <<>> THEN None
    ELSE LET parts == split(Head(lines), 4)
         IN  IF Len(parts) >= 3 /\ isdigit(parts[2]) /\ int10(parts[2]) = p
             THEN (IF int16(parts[1]) = ValueError THEN None ELSE int16(parts[1]))
             ELSE ScanByPidWrongField(Tail(lines), p)

\* A wrong find_window_by_pid: the ValueError of int(parts[0], 16) is not
\* caught and reaches the caller.
RECURSIVE ScanByPidUncaught(_, _)
ScanByPidUncaught(lines, p) ==
    IF lines = <<>> THEN None
    ELSE LET parts == split(Head(lines), 4)
         IN  IF Len(parts) >= 3 /\ isdigit(parts[3]) /\ int10(parts[3]) = p
             THEN int16(parts[1])
             ELSE ScanByPidUncaught(Tail(lines), p)

\* tray_wrapper and minimize_to_tray_wrapper: the for loop of
\* find_window_by_pid.  A ValueError of int(parts[0], 16) leaves the loop
\* through the except clause.
RECURSIVE ScanByPid(_, _)
ScanByPid(lines, p) ==
    IF lines = <<>> THEN None
    ELSE LET parts == split(Head(lines), 4)
         IN  IF Len(parts) >= 3 /\ isdigit(parts[3]) /\ int10(parts[3]) = p
             THEN (IF int16(parts[1]) = ValueError THEN None ELSE int16(parts[1]))
             ELSE ScanByPid(Tail(lines), p)

find_window_by_pid(output, p) ==
    IF output.ok THEN ScanByPid(output.lines, p) ELSE None

\* The for loop of find_window_by_class; minparts is the number of fields a
\* line must have to be looked at.
RECURSIVE ScanByClass(_, _, _)
ScanByClass(lines, cls, minparts) ==
    IF lines = <<>> THEN None
    ELSE LET parts == split(Head(lines), 5)
         IN  IF Len(parts) >= minparts /\ Contains(parts[3], cls)
             THEN (IF int16(parts[1]) = ValueError THEN None ELSE int16(parts[1]))
             ELSE ScanByClass(Tail(lines), cls, minparts)

\* tray_wrapper: a line needs four fields.
tray_find_window_by_class(output, cls) ==
    IF output.ok THEN ScanByClass(output.lines, cls, 4) ELSE None

\* multi_app_tray: a line needs three fields.
multi_find_window_by_class(output, cls) ==
    IF output.ok THEN ScanByClass(output.lines, cls, 3) ELSE None

----------------------------------------------------------------------------
(* Listings the lookup is run on *)

\* '0x02400007  0 12345 host Calculator'
LinePidCalc ==
    <<"0","x","0","2","4","0","0","0","0","7"," "," ","0"," ","1","2","3","4","5"," ","h","o","s","t"," ","C","a","l","c","u","l","a","t","o","r">>

\* '0x0260000a  0 12345 host Other'
LinePidOther ==
    <<"0","x","0","2","6","0","0","0","0","a"," "," ","0"," ","1","2","3","4","5"," ","h","o","s","t"," ","O","t","h","e","r">>

\* '0x03a00001  0 012345 host Z'
LinePidZero ==
    <<"0","x","0","3","a","0","0","0","0","1"," "," ","0"," ","0","1","2","3","4","5"," ","h","o","s","t"," ","Z">>

\* '0x01e00003 -1 777 host Desktop'
LinePidDesk ==
    <<"0","x","0","1","e","0","0","0","0","3"," ","-","1"," ","7","7","7"," ","h","o","s","t"," ","D","e","s","k","t","o","p">>

\* '0x02400007  0 gnome-calculator.Gnome-calculator host Calculator'
LineClsCalc ==
    <<"0","x","0","2","4","0","0","0","0","7"," "," ","0"," ","g","n","o","m","e","-","c","a","l","c","u","l","a","t","o","r",".","G","n","o","m","e","-","c","a","l","c","u","l","a","t","o","r"," ","h","o","s","t"," ","C","a","l","c","u","l","a","t","o","r">>

\* '0x04c00005  0 gnome-calculator.gnome-calculator host calc'
LineClsLower ==
    <<"0","x","0","4","c","0","0","0","0","5"," "," ","0"," ","g","n","o","m","e","-","c","a","l","c","u","l","a","t","o","r",".","g","n","o","m","e","-","c","a","l","c","u","l","a","t","o","r"," ","h","o","s","t"," ","c","a","l","c">>

\* '0x05000002  0 Gnome-calculator'
LineClsShort ==
    <<"0","x","0","5","0","0","0","0","0","2"," "," ","0"," ","G","n","o","m","e","-","c","a","l","c","u","l","a","t","o","r">>

\* 'zz 0 12345 host bad'
LineBadPid ==
    <<"z","z"," ","0"," ","1","2","3","4","5"," ","h","o","s","t"," ","b","a","d">>

\* 'zz 0 Gnome-calculator host bad'
LineBadCls ==
    <<"z","z"," ","0"," ","G","n","o","m","e","-","c","a","l","c","u","l","a","t","o","r"," ","h","o","s","t"," ","b","a","d">>

\* '0x06000001  0'
LineTwoFields ==
    <<"0","x","0","6","0","0","0","0","0","1"," "," ","0">>

MatcherCalc ==
    <<"G","n","o","m","e","-","c","a","l","c","u","l","a","t","o","r">>

LinePool ==
    { LinePidCalc, LinePidOther, LinePidZero, LinePidDesk, LineClsCalc,
      LineClsLower, LineClsShort, LineBadPid, LineBadCls, LineTwoFields }

\* The longest listing the lookup is run on.
MaxLines == 2

Listings ==
    UNION { [1..n -> LinePool] : n \in 0..MaxLines }

LookupPids == {12345, 777}

\* The program itself is not running while the lookup is examined alone.
Idle ==
    /\ variant = "none"
    /\ persist_on_exit = FALSE
    /\ wm_class = <<>>
    /\ procs = <<>>
    /\ windows = <<>>
    /\ process = <<>>
    /\ pid = None
    /\ window_id = <<>>
    /\ first_launch = FALSE
    /\ pc = [t \in {"fg", "bg"} |-> "off"]
    /\ cur = [h |-> "none", a |-> 0, alive |-> FALSE, p |-> 0, handled |-> {}]
    /\ mine = [t \in {"fg", "bg"} |-> 0]
    /\ found = [t \in {"fg", "bg"} |-> None]
    /\ loop = "notstarted"
    /\ asked = {}

LookupInit ==
    /\ Idle
    /\ env = NoEnv
    /\ lk \in [ output : [ok : BOOLEAN, lines : Listings],
                pid : LookupPids,
                cls : {MatcherCalc},
                op : {"none"},
                ret : {None} ]

LookupByPid ==
    /\ lk.op = "none"
    /\ lk' = [lk EXCEPT !.op = "pid", !.ret = find_window_by_pid(lk.output, lk.pid)]
    /\ UNCHANGED <<sysvars, env>>

LookupByClassTray ==
    /\ lk.op = "none"
    /\ lk' = [lk EXCEPT !.op = "class_tray",
                        !.ret = tray_find_window_by_class(lk.output, lk.cls)]
    /\ UNCHANGED <<sysvars, env>>

LookupByClassMulti ==
    /\ lk.op = "none"
    /\ lk' = [lk EXCEPT !.op = "class_multi",
                        !.ret = multi_find_window_by_class(lk.output, lk.cls)]
    /\ UNCHANGED <<sysvars, env>>

LookupNext == LookupByPid \/ LookupByClassTray \/ LookupByClassMulti

SpecLookup == LookupInit /\ [][LookupNext]_vars

----------------------------------------------------------------------------
(* The environment: child processes, windows, and the listing tool *)

\* The most launches in one run after start-up (the launch of __init__ in
\* tray and mini is not counted).
MaxLaunch == 2

\* The most windows on screen at one time.
MaxWin == 2

Threads == {"fg", "bg"}

Variants == {"tray", "mini", "multi"}

\* The applications of a run: one, or the two --app entries of multi_app_tray.
Apps == IF variant = "multi" THEN {1, 2} ELSE {1}

\* The window class (instance.Class) of application a's windows.
ClassOf(a) == IF a = 1 THEN <<"a", ".", "A">> ELSE <<"b", ".", "B">>

\* The class matcher given for application a.
MatcherOf(a) == IF a = 1 THEN <<"A">> ELSE <<"B">>

\* The process id of the n-th child, and of a process the wrapper did not start.
PidOf(n) == 40 + n

ExternalPid == 7

\* The window of the n-th child, and a window of application a's class that
\* belongs to a process the wrapper did not start.
WidOf(n) == 16 * n + 10

ExternalWid(a) == 256 + a

RECURSIVE DecStr(_)
DecStr(n) ==
    IF n < 10 THEN <<DecDigits[n + 1]>>
    ELSE DecStr(n \div 10) \o <<DecDigits[(n % 10) + 1]>>

\* n in hexadecimal, zero-padded to width digits.
RECURSIVE HexStr(_, _)
HexStr(n, width) ==
    IF width = 0 THEN <<>>
    ELSE HexStr(n \div 16, width - 1) \o <<HexLower[(n % 16) + 1]>>

\* wmctrl -lp: handle, desktop, PID, host, title.
WmctrlLp(ws) ==
    [i \in 1..Len(ws) |->
        <<"0", "x">> \o HexStr(ws[i].wid, 8) \o <<" ", " ", "0", " ">>
        \o DecStr(ws[i].pid) \o <<" ", "h", " ", "t">>]

\* wmctrl -lx: handle, desktop, class, host, title.
WmctrlLx(ws) ==
    [i \in 1..Len(ws) |->
        <<"0", "x">> \o HexStr(ws[i].wid, 8) \o <<" ", " ", "0", " ">>
        \o ws[i].cls \o <<" ", "h", " ", "t">>]

\* The results an external window command (xdotool, Xlib) can have: it
\* succeeds, exits non-zero, or cannot be run at all (an exception).  A
\* command given None instead of a window cannot succeed.
Outcomes(w) ==
    IF w = None THEN {"nonzero", "raise"} ELSE {"ok", "nonzero", "raise"}

\* Python's proc.poll() is None: the process has not exited.  A process is
\* "alive", "termed" (sent SIGTERM by the wrapper and not yet gone) or "exited".
IsRunning(p) == procs[p].st # "exited"

\* if proc and proc.poll() is None
Alive(p) == p # 0 /\ IsRunning(p)

\* seq without its i-th element
RemoveAt(seq, i) == SubSeq(seq, 1, i - 1) \o SubSeq(seq, i + 1, Len(seq))

RECURSIVE WithoutPid(_, _)
WithoutPid(ws, p) ==
    IF ws = <<>> THEN <<>>
    ELSE IF Head(ws).pid = p THEN WithoutPid(Tail(ws), p)
    ELSE <<Head(ws)>> \o WithoutPid(Tail(ws), p)

Running == loop # "ended" /\ variant \in Variants

\* A wrong wrapper: the stored handle is dropped when the process exits.
ProcExitForgets(n) ==
    /\ Running
    /\ IsRunning(n)
    /\ procs' = [procs EXCEPT ![n].st = "exited"]
    /\ windows' = WithoutPid(windows, PidOf(n))
    /\ window_id' = [window_id EXCEPT ![procs[n].app] = None]
    /\ UNCHANGED <<variant, persist_on_exit, wm_class, process, pid,
                   first_launch, pc, cur, mine, loop, asked, lk, env, found>>

\* A child process exits (by itself, closed by its user, or on a signal);
\* its windows go with it.
ProcExit(n) ==
    /\ Running
    /\ IsRunning(n)
    /\ procs' = [procs EXCEPT ![n].st = "exited"]
    /\ windows' = WithoutPid(windows, PidOf(n))
    /\ UNCHANGED <<variant, persist_on_exit, wm_class, process, pid, window_id,
                   first_launch, pc, cur, mine, loop, asked, lk, env, found>>

\* A live child opens its window.
WinOpen(n) ==
    /\ Running
    /\ IsRunning(n)
    /\ Len(windows) < MaxWin
    /\ \A i \in 1..Len(windows) : windows[i].wid # WidOf(n)
    /\ windows' = Append(windows, [wid |-> WidOf(n), pid |-> PidOf(n),
                                   cls |-> ClassOf(procs[n].app)])
    /\ UNCHANGED <<variant, persist_on_exit, wm_class, procs, process, pid,
                   window_id, first_launch, pc, cur, mine, loop, asked, lk, env, found>>

\* A window of application a's class appears that belongs to a process the
\* wrapper did not start (another instance of the program).
ExtOpen(a) ==
    /\ Running
    /\ wm_class[a] # <<>>
    /\ Len(windows) < MaxWin
    /\ \A i \in 1..Len(windows) : windows[i].pid # ExternalPid
    /\ windows' = Append(windows, [wid |-> ExternalWid(a), pid |-> ExternalPid,
                                   cls |-> ClassOf(a)])
    /\ UNCHANGED <<variant, persist_on_exit, wm_class, procs, process, pid,
                   window_id, first_launch, pc, cur, mine, loop, asked, lk, env, found>>

\* A window is closed while its process lives on.
WinClose(i) ==
    /\ Running
    /\ windows' = RemoveAt(windows, i)
    /\ UNCHANGED <<variant, persist_on_exit, wm_class, procs, process, pid,
                   window_id, first_launch, pc, cur, mine, loop, asked, lk, env, found>>

----------------------------------------------------------------------------
(* The program: launch, lookup, minimize *)

NoCur == [h |-> "none", a |-> 0, alive |-> FALSE, p |-> 0, handled |-> {}]

\* The most child processes started in one run.
MaxProcs == IF variant = "multi" THEN MaxLaunch ELSE MaxLaunch + 1

\* Whether another launch may be begun within the bound on child processes.
CanLaunch ==
    Len(procs) + Cardinality({t \in Threads : pc[t] \in {"l_popen", "ml_popen"}})
        < MaxProcs

\* Whether thread t is inside launch_process (and not inside on_hide).
InLaunch(t) == t = "bg" \/ cur.h \in {"init", "show"}

\* find_window: by class if a matcher is given, else by PID (tray); by PID
\* (mini); by class if a matcher is given, else None (multi).  ok: whether
\* the listing tool could be run.
find_window(a, ok) ==
    CASE variant = "tray" ->
            IF wm_class[a] # <<>>
            THEN tray_find_window_by_class(
                     [ok |-> ok, lines |-> WmctrlLx(windows)], wm_class[a])
            ELSE find_window_by_pid([ok |-> ok, lines |-> WmctrlLp(windows)], pid)
      [] variant = "mini" ->
            find_window_by_pid([ok |-> ok, lines |-> WmctrlLp(windows)], pid)
      [] OTHER ->
            IF wm_class[a] # <<>>
            THEN multi_find_window_by_class(
                     [ok |-> ok, lines |-> WmctrlLx(windows)], wm_class[a])
            ELSE None

\* Where thread t goes on when launch_process or a callback returns.
ReturnPc(t) ==
    IF t = "bg" THEN "poll"
    ELSE IF cur.h = "init" THEN "start_mon"
    ELSE "idle"

\* Thread t returns from launch_process, or from the callback it is in.
Return(t) ==
    /\ pc' = [pc EXCEPT ![t] = ReturnPc(t)]
    /\ mine' = [mine EXCEPT ![t] = 0]
    /\ cur' = IF t = "fg" THEN NoCur ELSE cur

\* launch_process: self.process = subprocess.Popen(self.cmd)
Popen(t) ==
    /\ pc[t] = "l_popen"
    /\ procs' = Append(procs, [app |-> 1, st |-> "alive"])
    /\ process' = [process EXCEPT ![1] = Len(procs) + 1]
    /\ mine' = [mine EXCEPT ![t] = Len(procs) + 1]
    /\ pc' = [pc EXCEPT ![t] = "l_pid"]
    /\ UNCHANGED <<variant, persist_on_exit, wm_class, windows, pid, window_id,
                   first_launch, cur, loop, asked, lk, env, found>>

\* launch_process: self.pid = self.process.pid
SetPid(t) ==
    /\ pc[t] = "l_pid"
    /\ pid' = PidOf(process[1])
    /\ pc' = [pc EXCEPT ![t] = "l_find"]
    /\ UNCHANGED <<variant, persist_on_exit, wm_class, procs, windows, process,
                   window_id, first_launch, cur, mine, loop, asked, lk, env, found>>

\* launch_process, after time.sleep(2): the call self.find_window().  It
\* reads self.pid (or the matcher) and the listing as they are now; the
\* thread holds the result while the listing tool runs and other threads go
\* on.
FindAfterLaunch(t) ==
    /\ pc[t] = "l_find"
    /\ \E ok \in BOOLEAN : found' = [found EXCEPT ![t] = find_window(1, ok)]
    /\ pc' = [pc EXCEPT ![t] = "l_store"]
    /\ UNCHANGED <<variant, persist_on_exit, wm_class, procs, windows, process,
                   pid, window_id, first_launch, cur, mine, loop, asked, lk, env>>

\* launch_process: the assignment  self.window_id = <result of the call>,
\* then the test  if self.first_launch and self.window_id
StoreWindowId(t) ==
    /\ pc[t] = "l_store"
    /\ window_id' = [window_id EXCEPT ![1] = found[t]]
    /\ found' = [found EXCEPT ![t] = None]
    /\ pc' = [pc EXCEPT ![t] =
                 IF first_launch /\ Truthy(found[t]) THEN "m_chk" ELSE "l_clear"]
    /\ UNCHANGED <<variant, persist_on_exit, wm_class, procs, windows, process,
                   pid, first_launch, cur, mine, loop, asked, lk, env>>

\* A wrong launch_process: self.first_launch is left as it is.
ClearFirstLaunchKept(t) ==
    /\ pc[t] = "l_clear"
    /\ Return(t)
    /\ UNCHANGED <<variant, persist_on_exit, wm_class, procs, windows, process,
                   pid, window_id, first_launch, loop, asked, lk, env, found>>

\* launch_process: self.first_launch = False, and return
ClearFirstLaunch(t) ==
    /\ pc[t] = "l_clear"
    /\ first_launch' = FALSE
    /\ Return(t)
    /\ UNCHANGED <<variant, persist_on_exit, wm_class, procs, windows, process,
                   pid, window_id, loop, asked, lk, env, found>>

\* Thread t leaves minimize_window: back into launch_process, or out of on_hide.
LeaveMinimize(t) ==
    IF InLaunch(t)
    THEN /\ pc' = [pc EXCEPT ![t] = "l_clear"]
         /\ UNCHANGED <<cur, mine>>
    ELSE Return(t)

\* A wrong minimize_window: the handle is not tested.
MinimizeCheckUnguarded(t) ==
    /\ pc[t] = "m_chk"
    /\ pc' = [pc EXCEPT ![t] = "m_min"]
    /\ UNCHANGED <<variant, persist_on_exit, wm_class, procs, windows, process,
                   pid, window_id, first_launch, cur, mine, loop, asked, lk, env, found>>

\* minimize_window: if self.window_id
MinimizeCheck(t) ==
    /\ pc[t] = "m_chk"
    /\ IF Truthy(window_id[1])
       THEN /\ pc' = [pc EXCEPT ![t] = "m_min"]
            /\ UNCHANGED <<cur, mine>>
       ELSE LeaveMinimize(t)
    /\ UNCHANGED <<variant, persist_on_exit, wm_class, procs, windows, process,
                   pid, window_id, first_launch, loop, asked, lk, env, found>>

\* minimize_window: xdotool windowminimize str(self.window_id); an exception
\* is caught by minimize_window, which then returns without unmapping.
MinimizeCmd(t) ==
    /\ pc[t] = "m_min"
    /\ \E o \in Outcomes(window_id[1]) :
         IF o = "raise"
         THEN LeaveMinimize(t)
         ELSE /\ pc' = [pc EXCEPT ![t] = "m_unmap"]
              /\ UNCHANGED <<cur, mine>>
    /\ UNCHANGED <<variant, persist_on_exit, wm_class, procs, windows, process,
                   pid, window_id, first_launch, loop, asked, lk, env, found>>

\* unmap_window: the Xlib unmap of self.window_id; any exception is caught.
UnmapCmd(t) ==
    /\ pc[t] = "m_unmap"
    /\ LeaveMinimize(t)
    /\ UNCHANGED <<variant, persist_on_exit, wm_class, procs, windows, process,
                   pid, window_id, first_launch, loop, asked, lk, env, found>>

----------------------------------------------------------------------------
(* Start-up, the poll thread, and the main loop *)

\* Gtk.main_quit(): stops the main loop if one is running.
MainQuit(who) ==
    /\ asked' = asked \cup {who}
    /\ loop' = IF loop = "running" THEN "quitting" ELSE loop

\* __init__: the poll thread is started.
StartMonitor ==
    /\ pc["fg"] = "start_mon"
    /\ pc' = [pc EXCEPT !["fg"] = "enter", !["bg"] = "poll"]
    /\ UNCHANGED <<variant, persist_on_exit, wm_class, procs, windows, process,
                   pid, window_id, first_launch, cur, mine, loop, asked, lk, env, found>>

\* main: Gtk.main()
EnterMain ==
    /\ pc["fg"] = "enter"
    /\ loop' = "running"
    /\ pc' = [pc EXCEPT !["fg"] = "idle"]
    /\ UNCHANGED <<variant, persist_on_exit, wm_class, procs, windows, process,
                   pid, window_id, first_launch, cur, mine, asked, lk, env, found>>

\* The main loop ends once Gtk.main_quit() was called and the running
\* callback has returned; the program exits and its daemon thread with it.
ExitMain ==
    /\ pc["fg"] = "idle"
    /\ loop = "quitting"
    /\ loop' = "ended"
    /\ pc' = [t \in Threads |-> "exit"]
    /\ UNCHANGED <<variant, persist_on_exit, wm_class, procs, windows, process,
                   pid, window_id, first_launch, cur, mine, asked, lk, env, found>>

\* A wrong monitor_process: the test of persist_on_exit is inverted.
MonitorTickInverted ==
    /\ pc["bg"] = "poll"
    /\ loop # "ended"
    /\ IF IsRunning(process[1])
       THEN UNCHANGED <<pc, loop, asked>>
       ELSE IF persist_on_exit
            THEN /\ MainQuit("poll")
                 /\ pc' = [pc EXCEPT !["bg"] = "done"]
            ELSE /\ CanLaunch
                 /\ pc' = [pc EXCEPT !["bg"] = "l_popen"]
                 /\ UNCHANGED <<loop, asked>>
    /\ UNCHANGED <<variant, persist_on_exit, wm_class, procs, windows, process,
                   pid, window_id, first_launch, cur, mine, lk, env, found>>

\* monitor_process: one pass of the while loop, after its sleep.
MonitorTick ==
    /\ pc["bg"] = "poll"
    /\ loop # "ended"
    /\ IF IsRunning(process[1])
       THEN UNCHANGED <<pc, loop, asked>>
       ELSE IF ~persist_on_exit
            THEN /\ MainQuit("poll")
                 /\ pc' = [pc EXCEPT !["bg"] = "done"]
            ELSE /\ CanLaunch
                 /\ pc' = [pc EXCEPT !["bg"] = "l_popen"]
                 /\ UNCHANGED <<loop, asked>>
    /\ UNCHANGED <<variant, persist_on_exit, wm_class, procs, windows, process,
                   pid, window_id, first_launch, cur, mine, lk, env, found>>

----------------------------------------------------------------------------
(* The menu callbacks of tray_wrapper and minimize_to_tray_wrapper *)

Single == variant \in {"tray", "mini"}

\* The main loop is running and no callback is: a menu item can be activated.
MenuReady == pc["fg"] = "idle" /\ loop = "running"

\* on_show: launch if the process is not running, else map and activate the
\* window if its handle is known.
OnShow ==
    /\ Single /\ MenuReady
    /\ IF ~IsRunning(process[1])
       THEN /\ CanLaunch
            /\ pc' = [pc EXCEPT !["fg"] = "l_popen"]
            /\ cur' = [NoCur EXCEPT !.h = "show", !.a = 1]
       ELSE IF Truthy(window_id[1])
            THEN /\ pc' = [pc EXCEPT !["fg"] = "s_map"]
                 /\ cur' = [NoCur EXCEPT !.h = "show", !.a = 1, !.alive = TRUE]
            ELSE UNCHANGED <<pc, cur>>
    /\ UNCHANGED <<variant, persist_on_exit, wm_class, procs, windows, process,
                   pid, window_id, first_launch, mine, loop, asked, lk, env, found>>

\* on_show: xdotool windowmap; an exception ends the callback (it is caught).
ShowMap ==
    /\ pc["fg"] = "s_map"
    /\ \E o \in Outcomes(window_id[1]) :
         IF o = "raise"
         THEN Return("fg")
         ELSE /\ pc' = [pc EXCEPT !["fg"] = "s_act"]
              /\ UNCHANGED <<cur, mine>>
    /\ UNCHANGED <<variant, persist_on_exit, wm_class, procs, windows, process,
                   pid, window_id, first_launch, loop, asked, lk, env, found>>

\* on_show: xdotool windowactivate --sync
ShowActivate ==
    /\ pc["fg"] = "s_act"
    /\ Return("fg")
    /\ UNCHANGED <<variant, persist_on_exit, wm_class, procs, windows, process,
                   pid, window_id, first_launch, loop, asked, lk, env, found>>

\* on_hide: if self.is_program_running() and self.window_id
OnHide ==
    /\ Single /\ MenuReady
    /\ IF IsRunning(process[1]) /\ Truthy(window_id[1])
       THEN /\ pc' = [pc EXCEPT !["fg"] = "m_chk"]
            /\ cur' = [NoCur EXCEPT !.h = "hide", !.a = 1, !.alive = TRUE]
       ELSE UNCHANGED <<pc, cur>>
    /\ UNCHANGED <<variant, persist_on_exit, wm_class, procs, windows, process,
                   pid, window_id, first_launch, mine, loop, asked, lk, env, found>>

----------------------------------------------------------------------------
(* on_quit, in the three programs *)

\* The process a statement of on_quit names: self.process, read anew by
\* each statement (tray, mini); the local variable proc (multi).
QuitProc == IF variant = "multi" THEN cur.p ELSE process[1]

\* on_quit goes on to the next application, or to Gtk.main_quit().
QuitNext(handled) ==
    /\ pc' = [pc EXCEPT !["fg"] =
                 IF cur.a + 1 \in Apps THEN "q_chk" ELSE "q_quit"]
    /\ cur' = [cur EXCEPT !.a = cur.a + 1, !.p = 0, !.handled = handled]

OnQuit ==
    /\ variant \in Variants /\ MenuReady
    /\ pc' = [pc EXCEPT !["fg"] = "q_chk"]
    /\ cur' = [NoCur EXCEPT !.h = "quit", !.a = 1]
    /\ UNCHANGED <<variant, persist_on_exit, wm_class, procs, windows, process,
                   pid, window_id, first_launch, mine, loop, asked, lk, env, found>>

\* if self.process and self.is_program_running()   (tray, mini)
\* proc = app.get('process'); if proc and proc.poll() is None   (multi)
QuitCheck ==
    /\ pc["fg"] = "q_chk"
    /\ IF Alive(process[cur.a])
       THEN /\ pc' = [pc EXCEPT !["fg"] = "q_term"]
            /\ cur' = [cur EXCEPT !.p = process[cur.a], !.alive = TRUE]
       ELSE QuitNext(cur.handled)
    /\ UNCHANGED <<variant, persist_on_exit, wm_class, procs, windows, process,
                   pid, window_id, first_launch, mine, loop, asked, lk, env, found>>

\* A wrong on_quit: an exception of terminate() is not caught and ends the
\* callback.
QuitTerminateUncaught ==
    /\ pc["fg"] = "q_term"
    /\ \E o \in {"ok", "raise"} :
         IF o = "ok"
         THEN /\ procs' = IF IsRunning(QuitProc)
                          THEN [procs EXCEPT ![QuitProc].st = "termed"]
                          ELSE procs
              /\ pc' = [pc EXCEPT !["fg"] = "q_wait"]
              /\ cur' = [cur EXCEPT !.handled = cur.handled \cup {cur.a}]
              /\ mine' = mine
         ELSE /\ procs' = procs
              /\ Return("fg")
    /\ UNCHANGED <<variant, persist_on_exit, wm_class, windows, process, pid,
                   window_id, first_launch, loop, asked, lk, env, found>>

\* terminate(): SIGTERM to the process unless it has exited; an exception is
\* caught by  except Exception  and the wait is skipped.
QuitTerminate ==
    /\ pc["fg"] = "q_term"
    /\ \E o \in {"ok", "raise"} :
         IF o = "ok"
         THEN /\ procs' = IF IsRunning(QuitProc)
                          THEN [procs EXCEPT ![QuitProc].st = "termed"]
                          ELSE procs
              /\ pc' = [pc EXCEPT !["fg"] = "q_wait"]
              /\ cur' = [cur EXCEPT !.handled = cur.handled \cup {cur.a}]
         ELSE /\ procs' = procs
              /\ QuitNext(cur.handled \cup {cur.a})
    /\ UNCHANGED <<variant, persist_on_exit, wm_class, windows, process, pid,
                   window_id, first_launch, mine, loop, asked, lk, env, found>>

\* wait(timeout=...) is called: the process object it waits on is the one
\* self.process (proc) names at the call.
QuitWaitBegin ==
    /\ pc["fg"] = "q_wait"
    /\ pc' = [pc EXCEPT !["fg"] = "q_waiting"]
    /\ cur' = [cur EXCEPT !.p = QuitProc]
    /\ UNCHANGED <<variant, persist_on_exit, wm_class, procs, windows, process,
                   pid, window_id, first_launch, mine, loop, asked, lk, env, found>>

\* wait(timeout=...) returns if that process has exited, else it raises
\* TimeoutExpired.
QuitWait ==
    /\ pc["fg"] = "q_waiting"
    /\ IF IsRunning(cur.p)
       THEN /\ pc' = [pc EXCEPT !["fg"] = "q_kill"]
            /\ cur' = cur
       ELSE QuitNext(cur.handled)
    /\ UNCHANGED <<variant, persist_on_exit, wm_class, procs, windows, process,
                   pid, window_id, first_launch, mine, loop, asked, lk, env, found>>

\* except subprocess.TimeoutExpired: kill(), SIGKILL to the process unless it
\* has exited.
QuitKill ==
    /\ pc["fg"] = "q_kill"
    /\ procs' = IF IsRunning(QuitProc)
                THEN [procs EXCEPT ![QuitProc].st = "exited"]
                ELSE procs
    /\ windows' = WithoutPid(windows, PidOf(QuitProc))
    /\ QuitNext(cur.handled)
    /\ UNCHANGED <<variant, persist_on_exit, wm_class, process, pid, window_id,
                   first_launch, mine, loop, asked, lk, env, found>>

\* Gtk.main_quit() at the end of on_quit
QuitMainQuit ==
    /\ pc["fg"] = "q_quit"
    /\ MainQuit("quit")
    /\ Return("fg")
    /\ UNCHANGED <<variant, persist_on_exit, wm_class, procs, windows, process,
                   pid, window_id, first_launch, lk, env, found>>

----------------------------------------------------------------------------
(* The menu callbacks of multi_app_tray *)

\* An exception leaves the callback the GUI thread is in and reaches the main
\* loop.
Raise ==
    /\ pc' = [pc EXCEPT !["fg"] = "uncaught"]
    /\ UNCHANGED <<cur, mine>>

\* The main loop reports the exception that left a callback, and goes on.
CallbackRaised ==
    /\ pc["fg"] = "uncaught"
    /\ Return("fg")
    /\ UNCHANGED <<variant, persist_on_exit, wm_class, procs, windows, process,
                   pid, window_id, first_launch, loop, asked, lk, env, found>>

\* on_show_app: 'window_id' in app  holds from __init__ on, so the cached
\* handle is tried first: xdotool windowmap, check=True.  CalledProcessError
\* is caught; any other exception leaves the callback.
OnShowApp(a) ==
    /\ variant = "multi" /\ MenuReady
    /\ CanLaunch
    /\ \E o \in Outcomes(window_id[a]) :
         /\ pc' = [pc EXCEPT !["fg"] =
                      CASE o = "ok" -> "ms_act1"
                        [] o = "nonzero" -> "ms_find"
                        [] OTHER -> "uncaught"]
         /\ cur' = [NoCur EXCEPT !.h = "show", !.a = a,
                                 !.alive = Alive(process[a])]
    /\ UNCHANGED <<variant, persist_on_exit, wm_class, procs, windows, process,
                   pid, window_id, first_launch, mine, loop, asked, lk, env, found>>

\* on_show_app: xdotool windowactivate --sync on the cached handle,
\* check=True, then return.
MultiShowCachedActivate ==
    /\ pc["fg"] = "ms_act1"
    /\ \E o \in Outcomes(window_id[cur.a]) :
         CASE o = "nonzero" -> /\ pc' = [pc EXCEPT !["fg"] = "ms_find"]
                               /\ UNCHANGED <<cur, mine>>
           [] o = "raise" -> Raise
           [] OTHER -> Return("fg")
    /\ UNCHANGED <<variant, persist_on_exit, wm_class, procs, windows, process,
                   pid, window_id, first_launch, loop, asked, lk, env, found>>

\* on_show_app: app['window_id'] = self.find_window(app); launch if not found.
MultiShowFind ==
    /\ pc["fg"] = "ms_find"
    /\ \E ok \in BOOLEAN :
         LET w == find_window(cur.a, ok)
         IN  /\ window_id' = [window_id EXCEPT ![cur.a] = w]
             /\ pc' = [pc EXCEPT !["fg"] =
                          IF Truthy(w) THEN "ms_map2" ELSE "ml_popen"]
    /\ UNCHANGED <<variant, persist_on_exit, wm_class, procs, windows, process,
                   pid, first_launch, cur, mine, loop, asked, lk, env, found>>

\* on_show_app: xdotool windowmap, check=False, outside any try.
MultiShowMap ==
    /\ pc["fg"] = "ms_map2"
    /\ \E o \in Outcomes(window_id[cur.a]) :
         IF o = "raise"
         THEN Raise
         ELSE /\ pc' = [pc EXCEPT !["fg"] = "ms_act2"]
              /\ UNCHANGED <<cur, mine>>
    /\ UNCHANGED <<variant, persist_on_exit, wm_class, procs, windows, process,
                   pid, window_id, first_launch, loop, asked, lk, env, found>>

\* on_show_app: xdotool windowactivate --sync, check=False.
MultiShowActivate ==
    /\ pc["fg"] = "ms_act2"
    /\ \E o \in Outcomes(window_id[cur.a]) :
         IF o = "raise" THEN Raise ELSE Return("fg")
    /\ UNCHANGED <<variant, persist_on_exit, wm_class, procs, windows, process,
                   pid, window_id, first_launch, loop, asked, lk, env, found>>

\* launch_app: app['process'] = subprocess.Popen(app['cmd']); time.sleep(1.5)
LaunchApp ==
    /\ pc["fg"] = "ml_popen"
    /\ procs' = Append(procs, [app |-> cur.a, st |-> "alive"])
    /\ process' = [process EXCEPT ![cur.a] = Len(procs) + 1]
    /\ Return("fg")
    /\ UNCHANGED <<variant, persist_on_exit, wm_class, windows, pid, window_id,
                   first_launch, loop, asked, lk, env, found>>

\* A wrong on_hide_app: the handle found is stored for every application.
OnHideAppShared(a) ==
    /\ variant = "multi" /\ MenuReady
    /\ \E ok \in BOOLEAN :
         LET w == find_window(a, ok)
         IN  /\ window_id' = [b \in Apps |-> w]
             /\ IF Truthy(w)
                THEN /\ pc' = [pc EXCEPT !["fg"] = "mh_min"]
                     /\ cur' = [NoCur EXCEPT !.h = "hide", !.a = a,
                                             !.alive = Alive(process[a])]
                ELSE UNCHANGED <<pc, cur>>
    /\ UNCHANGED <<variant, persist_on_exit, wm_class, procs, windows, process,
                   pid, first_launch, mine, loop, asked, lk, env, found>>

\* on_hide_app: app['window_id'] = self.find_window(app), and the test of it.
OnHideApp(a) ==
    /\ variant = "multi" /\ MenuReady
    /\ \E ok \in BOOLEAN :
         LET w == find_window(a, ok)
         IN  /\ window_id' = [window_id EXCEPT ![a] = w]
             /\ IF Truthy(w)
                THEN /\ pc' = [pc EXCEPT !["fg"] = "mh_min"]
                     /\ cur' = [NoCur EXCEPT !.h = "hide", !.a = a,
                                             !.alive = Alive(process[a])]
                ELSE UNCHANGED <<pc, cur>>
    /\ UNCHANGED <<variant, persist_on_exit, wm_class, procs, windows, process,
                   pid, first_launch, mine, loop, asked, lk, env, found>>

\* on_hide_app: xdotool windowminimize, check=False, outside any try.
MultiHideMinimize ==
    /\ pc["fg"] = "mh_min"
    /\ \E o \in Outcomes(window_id[cur.a]) :
         IF o = "raise"
         THEN Raise
         ELSE /\ pc' = [pc EXCEPT !["fg"] = "mh_unmap"]
              /\ UNCHANGED <<cur, mine>>
    /\ UNCHANGED <<variant, persist_on_exit, wm_class, procs, windows, process,
                   pid, window_id, first_launch, loop, asked, lk, env, found>>

\* on_hide_app: self.unmap_window(app['window_id']); any exception is caught.
MultiHideUnmap ==
    /\ pc["fg"] = "mh_unmap"
    /\ Return("fg")
    /\ UNCHANGED <<variant, persist_on_exit, wm_class, procs, windows, process,
                   pid, window_id, first_launch, loop, asked, lk, env, found>>

----------------------------------------------------------------------------
(* The specification of the running program *)

NoLookup ==
    [output |-> [ok |-> FALSE, lines |-> <<>>], pid |-> 0, cls |-> <<>>,
     op |-> "off", ret |-> None]

\* tray and mini: __init__ has built the menu and is about to launch
\* (self.first_launch = True; self.launch_process()).  multi: __init__ is
\* done (no process, no handle) and main is about to call Gtk.main().
Init ==
    /\ variant \in Variants
    /\ persist_on_exit \in (IF Single THEN BOOLEAN ELSE {FALSE})
    /\ wm_class \in
         CASE variant = "tray" -> {[a \in {1} |-> <<>>], [a \in {1} |-> MatcherOf(1)]}
           [] variant = "mini" -> {[a \in {1} |-> <<>>]}
           [] OTHER -> {[a \in {1, 2} |-> MatcherOf(a)]}
    /\ procs = <<>>
    /\ windows = <<>>
    /\ process = [a \in Apps |-> 0]
    /\ pid = None
    /\ window_id = [a \in Apps |-> None]
    /\ first_launch = Single
    /\ pc = [t \in Threads |->
                IF t = "bg" THEN "off" ELSE IF Single THEN "l_popen" ELSE "enter"]
    /\ cur = IF Single THEN [NoCur EXCEPT !.h = "init", !.a = 1] ELSE NoCur
    /\ mine = [t \in Threads |-> 0]
    /\ found = [t \in Threads |-> None]
    /\ loop = "notstarted"
    /\ asked = {}
    /\ lk = NoLookup
    /\ env = NoEnv

\* The steps of tray_wrapper and minimize_to_tray_wrapper, with those of
\* start-up, of Quit and of the environment, which multi_app_tray shares.
CommonNext ==
    \/ \E t \in Threads :
         \/ Popen(t)
         \/ SetPid(t)
         \/ FindAfterLaunch(t)
         \/ StoreWindowId(t)
         \/ ClearFirstLaunch(t)
         \/ MinimizeCheck(t)
         \/ MinimizeCmd(t)
         \/ UnmapCmd(t)
    \/ StartMonitor
    \/ EnterMain
    \/ ExitMain
    \/ MonitorTick
    \/ OnShow
    \/ ShowMap
    \/ ShowActivate
    \/ OnHide
    \/ OnQuit
    \/ QuitCheck
    \/ QuitTerminate
    \/ QuitWaitBegin
    \/ QuitWait
    \/ QuitKill
    \/ QuitMainQuit
    \/ \E n \in 1..Len(procs) :
         \/ ProcExit(n)
         \/ WinOpen(n)
    \/ \E a \in Apps : ExtOpen(a)
    \/ \E i \in 1..Len(windows) : WinClose(i)

\* The Show and Hide callbacks of multi_app_tray.
MultiNext ==
    \/ \E a \in Apps :
         \/ OnShowApp(a)
         \/ OnHideApp(a)
    \/ MultiShowCachedActivate
    \/ MultiShowFind
    \/ MultiShowMap
    \/ MultiShowActivate
    \/ LaunchApp
    \/ MultiHideMinimize
    \/ MultiHideUnmap
    \/ CallbackRaised

Next == CommonNext \/ MultiNext

Spec == Init /\ [][Next]_vars

\* What the poll thread does by itself: its loop, and the launch it runs.
BgStep ==
    \/ MonitorTick
    \/ Popen("bg") \/ SetPid("bg") \/ FindAfterLaunch("bg") \/ StoreWindowId("bg")
    \/ ClearFirstLaunch("bg")
    \/ MinimizeCheck("bg") \/ MinimizeCmd("bg") \/ UnmapCmd("bg")

\* What the GUI thread does by itself: start-up, the rest of a callback once
\* it was entered, and the end of the main loop.  Activating a menu item is
\* the user's step and not among these.
FgStep ==
    \/ Popen("fg") \/ SetPid("fg") \/ FindAfterLaunch("fg") \/ StoreWindowId("fg")
    \/ ClearFirstLaunch("fg")
    \/ MinimizeCheck("fg") \/ MinimizeCmd("fg") \/ UnmapCmd("fg")
    \/ StartMonitor \/ EnterMain \/ ExitMain
    \/ ShowMap \/ ShowActivate
    \/ QuitCheck \/ QuitTerminate \/ QuitWaitBegin \/ QuitWait \/ QuitKill \/ QuitMainQuit

\* The start of the two variants that have a poll thread.
SingleInit == Init /\ Single

\* tray_wrapper and minimize_to_tray_wrapper with both threads kept running:
\* a thread that can take a step of its own eventually takes one.  Nothing
\* is assumed of the user or of the child processes.
FairSpec ==
    SingleInit /\ [][CommonNext]_vars /\ WF_vars(BgStep) /\ WF_vars(FgStep)

----------------------------------------------------------------------------
(* main, from its first statement to the construction of the wrapper object *)

\* The values GDK_BACKEND can have when the program starts.
Backends == {"unset", "x11", "wayland", "broadway"}

\* main is entered: the arguments are those of a run, no object exists yet,
\* and the environment is any: WAYLAND_DISPLAY set or not, GDK_BACKEND
\* anything.
EnvInit ==
    /\ variant \in Variants
    /\ persist_on_exit \in (IF Single THEN BOOLEAN ELSE {FALSE})
    /\ wm_class \in
         CASE variant = "tray" -> {[a \in {1} |-> <<>>], [a \in {1} |-> MatcherOf(1)]}
           [] variant = "mini" -> {[a \in {1} |-> <<>>]}
           [] OTHER -> {[a \in {1, 2} |-> MatcherOf(a)]}
    /\ procs = <<>>
    /\ windows = <<>>
    /\ process = [a \in Apps |-> 0]
    /\ pid = None
    /\ window_id = [a \in Apps |-> None]
    /\ first_launch = FALSE
    /\ pc = [t \in Threads |-> "off"]
    /\ cur = NoCur
    /\ mine = [t \in Threads |-> 0]
    /\ found = [t \in Threads |-> None]
    /\ loop = "notstarted"
    /\ asked = {}
    /\ lk = NoLookup
    /\ env \in [wayland : BOOLEAN, backend : Backends, at : {"main"}]

\* tray_wrapper, minimize_to_tray_wrapper: main begins with
\*   if 'WAYLAND_DISPLAY' in os.environ:
\*       del os.environ['WAYLAND_DISPLAY']
\*       os.environ['GDK_BACKEND'] = 'x11'
\* and goes on to parse its arguments.
MainForceX11 ==
    /\ Single
    /\ env.at = "main"
    /\ env' = IF env.wayland
              THEN [wayland |-> FALSE, backend |-> "x11", at |-> "args"]
              ELSE [env EXCEPT !.at = "args"]
    /\ UNCHANGED <<sysvars, lk>>

\* multi_app_tray: main begins with the parsing of its arguments; force_x11
\* is defined in the module and called nowhere.
MultiMainArgs ==
    /\ variant = "multi"
    /\ env.at = "main"
    /\ env' = [env EXCEPT !.at = "args"]
    /\ UNCHANGED <<sysvars, lk>>

\* main: GObject.threads_init() and the constructor, which creates the tray
\* indicator and the menu.
CreateIndicator ==
    /\ env.at = "args"
    /\ env' = [env EXCEPT !.at = "gui"]
    /\ UNCHANGED <<sysvars, lk>>

EnvNext == MainForceX11 \/ MultiMainArgs \/ CreateIndicator

SpecEnv == EnvInit /\ [][EnvNext]_vars

----------------------------------------------------------------------------
(* Properties *)

\* The child processes that have exited, and the launches after start-up.
NumExited == Cardinality({n \in 1..Len(procs) : procs[n].st = "exited"})

NumRelaunches == Len(procs) - 1

\* Nothing is in progress: the menu waits, the poll loop sleeps, and the
\* process the wrapper holds runs.
Settled ==
    /\ pc["fg"] = "idle" /\ pc["bg"] = "poll" /\ loop = "running"
    /\ IsRunning(process[1])

\* C1: with persist-on-exit set, each exit of the supervised process is
\* answered by exactly one launch: there are never more relaunches than
\* exits, and once everything has settled there are as many.
C1_OneRelaunchPerExit ==
    (Single /\ persist_on_exit /\ procs # <<>>) =>
        /\ NumRelaunches <= NumExited
        /\ Settled => NumRelaunches = NumExited

\* C2 (as claimed): with persist-on-exit unset, once the supervised process
\* has exited the poll loop eventually asks the event loop to terminate
\* (or the wrapper has ended by then).
C2_FirstExitTerminates ==
    (Single /\ ~persist_on_exit /\ procs # <<>> /\ ~Alive(process[1]))
        ~> ("poll" \in asked \/ loop = "ended")

\* C2 (amended): with persist-on-exit unset, the poll loop never launches a
\* process, a pass of the poll loop that finds the process exited asks the
\* event loop to terminate and ends the poll loop, and an exit leads to that
\* request unless Show has relaunched the process or the wrapper has ended.
C2_PollAsksUnlessRelaunched ==
    /\ [][ (Single /\ ~persist_on_exit) =>
             /\ pc'["bg"] \notin {"l_popen", "l_pid", "l_find", "l_store", "l_clear",
                                  "m_chk", "m_min", "m_unmap"}
             /\ (pc["bg"] = "poll" /\ pc'["bg"] \notin {"poll", "exit"}) =>
                    /\ ~Alive(process[1])
                    /\ pc'["bg"] = "done"
                    /\ "poll" \in asked' ]_vars
    /\ (Single /\ ~persist_on_exit /\ procs # <<>> /\ ~Alive(process[1]))
          ~> ("poll" \in asked \/ loop = "ended" \/ Alive(process[1]))

\* C2 witness: persist-on-exit is unset, the process has exited, and the poll
\* loop has asked the running event loop to terminate.
C2_Witness ==
    /\ Single /\ ~persist_on_exit
    /\ NumExited = 1 /\ Len(procs) = 1
    /\ "poll" \in asked /\ pc["bg"] = "done" /\ loop = "quitting"

\* The processes started for application a that have not exited.
LiveProcs(a) == {n \in 1..Len(procs) : procs[n].app = a /\ IsRunning(n)}

\* The GUI thread, inside Show, starts a process in this step.
ShowStartsProcess ==
    /\ cur.h = "show"
    /\ pc["fg"] \in {"l_popen", "ml_popen"}
    /\ Len(procs') = Len(procs) + 1

\* C3: Show launches the application only if its process is not alive:
\* while a process started for that application is alive, Show starts no
\* other process.
C3_ShowLaunchesOnlyIfNotAlive ==
    [][ ShowStartsProcess => LiveProcs(cur.a) = {} ]_vars

\* C4: Quit attempts graceful termination before force-kill: the kill is
\* reached only from a wait that timed out, a wait that times out is
\* followed by the kill, and the process that is killed has been sent the
\* terminate request before.
C4_TerminateBeforeKill ==
    [][ /\ (pc["fg"] # "q_kill" /\ pc'["fg"] = "q_kill") =>
               (pc["fg"] = "q_waiting" /\ IsRunning(cur.p))
        /\ (pc["fg"] = "q_waiting" /\ pc'["fg"] # "q_waiting" /\ IsRunning(cur.p)) =>
               pc'["fg"] = "q_kill"
        /\ (pc["fg"] = "q_kill" /\ pc'["fg"] # "q_kill" /\ IsRunning(QuitProc)) =>
               procs[QuitProc].st = "termed" ]_vars

IssuesHide(t) ==
    /\ pc[t] \in {"m_min", "m_unmap", "mh_min", "mh_unmap"}
    /\ pc'[t] \notin {pc[t], "exit"}

\* C6: a launch minimizes or unmaps the window only if it is the launch of
\* start-up and it resolved a handle; the launches of the poll loop and of
\* Show issue no such command.
C6_MinimizeOnlyOnFirstLaunch ==
    [][ \A t \in Threads :
          (IssuesHide(t) /\ InLaunch(t)) =>
              /\ t = "fg" /\ cur.h = "init" /\ mine[t] = 1
              /\ Truthy(window_id[1]) ]_vars

\* C6 witness: a later launch has resolved a handle and is about to return
\* without having minimized.
C6_Witness ==
    \E t \in Threads :
        /\ pc[t] = "l_clear" /\ mine[t] > 1
        /\ Truthy(window_id[1]) /\ ~first_launch

\* C7: Hide issues a minimize or unmap command only if the application's
\* process was alive when Hide began and a window handle is known.
C7_HideOnlyIfAliveAndKnown ==
    [][ (cur.h = "hide" /\ IssuesHide("fg")) =>
            (cur.alive /\ Truthy(window_id[cur.a])) ]_vars

\* What minimizing may not change when there is no handle.
AppState == <<procs, windows, process, pid, window_id, first_launch, loop, asked>>

\* C8: minimizing with no resolved handle is a no-op: minimize_window called
\* with no handle returns with no command issued and nothing changed, and
\* Hide goes on to the minimize command only with a handle.
C8_MinimizeWithoutHandleIsNoop ==
    [][ /\ \A t \in Threads :
             (pc[t] = "m_chk" /\ pc'[t] \notin {"m_chk", "exit"}
                 /\ ~Truthy(window_id[1])) =>
                 /\ pc'[t] \notin {"m_min", "m_unmap"}
                 /\ UNCHANGED AppState
        /\ (pc["fg"] = "idle" /\ pc'["fg"] = "mh_min") =>
               Truthy(window_id'[cur'.a]) ]_vars

\* C8 witness: minimize_window is entered while no handle is stored.
C8_Witness ==
    \E t \in Threads : pc[t] = "m_chk" /\ ~Truthy(window_id[1])

\* The whitespace-separated fields of a listing line.
Fields(line) == split(line, Len(line))

\* The first index of lines that satisfies Matches, or 0.
FirstLine(lines, Matches(_)) ==
    LET m == {i \in 1..Len(lines) : Matches(lines[i])}
    IN  IF m = {} THEN 0 ELSE CHOOSE i \in m : \A j \in m : i <= j

\* The third field of the line is a number equal to p.
PidMatches(line, p) ==
    LET f == Fields(line)
    IN  Len(f) >= 3 /\ isdigit(f[3]) /\ int10(f[3]) = p

\* The line has a class field, and it contains cls.
ClassMatches(line, cls) ==
    LET f == Fields(line)
    IN  Len(f) >= 3 /\ Contains(f[3], cls)

\* ret is the handle of line i of lines read as hexadecimal; absent for i = 0.
IsHandleOfLine(ret, lines, i) ==
    /\ i = 0 => ret = None
    /\ (i # 0 /\ int16(Fields(lines[i])[1]) # ValueError) =>
           ret = int16(Fields(lines[i])[1])

\* C9: lookup by PID returns the handle, read as hexadecimal, of the first
\* listing line whose third field numerically equals the PID, and absent if
\* no line matches; the line '0x02400007  0 12345 host Calculator' gives
\* 37748743 for PID 12345.
C9_LookupByPid ==
    (lk.op = "pid" /\ lk.output.ok) =>
        /\ IsHandleOfLine(lk.ret, lk.output.lines,
               FirstLine(lk.output.lines, LAMBDA l : PidMatches(l, lk.pid)))
        /\ (lk.output.lines = <<LinePidCalc>> /\ lk.pid = 12345) =>
               lk.ret = 37748743

\* C9 witness: the second line is the first with the PID and its handle is
\* returned.
C9_Witness ==
    /\ lk.op = "pid" /\ lk.output.ok /\ lk.pid = 12345
    /\ lk.output.lines = <<LinePidDesk, LinePidCalc>>
    /\ lk.ret = 37748743

\* C10: lookup by class, in both variants that have it, returns the handle
\* of the first listing line that has a class field containing the matcher
\* (case-sensitive), and absent if there is none; so both give the same
\* result on the same listing.
C10_LookupByClass ==
    (lk.op \in {"class_tray", "class_multi"} /\ lk.output.ok) =>
        IsHandleOfLine(lk.ret, lk.output.lines,
            FirstLine(lk.output.lines, LAMBDA l : ClassMatches(l, lk.cls)))

\* The handles that the lines of a listing carry in their first field.
HandlesOf(lines) ==
    {int16(Fields(lines[i])[1]) :
        i \in {j \in 1..Len(lines) : Fields(lines[j]) # <<>>}} \ {ValueError}

\* C11: window lookup never raises to its caller: it returns a handle of the
\* listing or absent, and it returns absent when the listing tool could not
\* be run or exited non-zero, and when the line that matches carries a
\* malformed handle.
C11_LookupNeverRaises ==
    (lk.op \in {"pid", "class_tray", "class_multi"}) =>
        /\ lk.ret # ValueError
        /\ lk.ret \in {None} \cup HandlesOf(lk.output.lines)
        /\ ~lk.output.ok => lk.ret = None
        /\ (lk.op = "pid" /\ lk.output.lines = <<LineBadPid>> /\ lk.pid = 12345)
               => lk.ret = None
        /\ (lk.op # "pid" /\ lk.output.lines = <<LineBadCls>>) => lk.ret = None

\* C11 witness: the only line has the PID looked for and a handle that is not
\* a number; the lookup has returned absent.
C11_Witness ==
    /\ lk.op = "pid" /\ lk.output.ok /\ lk.pid = 12345
    /\ lk.output.lines = <<LineBadPid>>
    /\ lk.ret = None

\* The application of the Show or Hide callback that takes this step: the one
\* it is in, or the one it enters.
CallbackApp ==
    IF cur.h \in {"show", "hide"} THEN cur.a
    ELSE IF cur'.h \in {"show", "hide"} THEN cur'.a
    ELSE 0

\* The processes started so far are as they were.
SameProcs == \A n \in 1..Len(procs) : procs'[n] = procs[n]

\* C12: in multi_app_tray a step of Show or Hide on one application leaves
\* every other application's window handle and process handle as they were,
\* changes the state of no process, and starts a process for no other
\* application; a callback that returns at once changes at most the handle of
\* one application.
C12_AppsIndependent ==
    [][ variant = "multi" =>
          /\ (CallbackApp # 0 /\ pc'["fg"] # pc["fg"]) =>
                 /\ \A b \in Apps \ {CallbackApp} :
                        /\ window_id'[b] = window_id[b]
                        /\ process'[b] = process[b]
                 /\ SameProcs
                 /\ Len(procs') > Len(procs) =>
                        procs'[Len(procs')].app = CallbackApp
          /\ (cur.h = "none" /\ cur'.h = "none") =>
                 /\ Cardinality({b \in Apps : window_id'[b] # window_id[b]}) <= 1
                 /\ process' = process
                 /\ Len(procs') = Len(procs) ]_vars

\* C12 witness: the first application runs and its window handle is known,
\* and Hide on the second application has issued its minimize command.
C12_Witness ==
    /\ variant = "multi" /\ cur.h = "hide" /\ cur.a = 2 /\ pc["fg"] = "mh_unmap"
    /\ Alive(process[1]) /\ Truthy(window_id[1])

\* C13: in every variant the poll thread runs for the lifetime of the
\* wrapper: while the main loop runs and nothing has asked it to terminate,
\* the poll thread has been started and has not stopped.
C13_PollThreadRuns ==
    (loop = "running" /\ asked = {}) => pc["bg"] \notin {"off", "done", "exit"}

\* C14: no failure of an external window command leaves Show, Hide or
\* minimize: no exception of such a command reaches the main loop.
C14_NoFailurePropagates == pc["fg"] # "uncaught"

\* C15: in every variant, when the tray indicator and the menu are created
\* WAYLAND_DISPLAY is not in the environment and GDK_BACKEND is x11, whatever
\* the environment was when the program started.
C15_X11BeforeGui ==
    env.at = "gui" => (~env.wayland /\ env.backend = "x11")

\* C16: every launch goes on, after the settle delay, to one window lookup
\* whose result is stored: the thread that has started the process is next at
\* the lookup of launch (after recording the PID), and from the lookup it
\* goes on without a second one.
C16_LookupAfterLaunch ==
    [][ \A t \in Threads :
          /\ (pc[t] \in {"l_popen", "ml_popen"} /\ pc'[t] \notin {pc[t], "exit"})
                 => pc'[t] = "l_pid"
          /\ (pc[t] = "l_pid" /\ pc'[t] \notin {pc[t], "exit"})
                 => pc'[t] = "l_find"
          /\ (pc[t] = "l_find" /\ pc'[t] \notin {pc[t], "exit"})
                 => pc'[t] = "l_store"
          /\ (pc[t] = "l_store" /\ pc'[t] \notin {pc[t], "exit"})
                 => pc'[t] \in {"m_chk", "l_clear"} ]_vars

\* The GUI thread, inside Show, issues the map command in this step: the
\* windowmap of on_show; in multi_app_tray the windowmap on the cached handle
\* that on_show_app begins with, and the one after its lookup.
ShowIssuesMap ==
    \/ pc["fg"] = "s_map" /\ pc'["fg"] \notin {"s_map", "exit"}
    \/ variant = "multi" /\ cur.h = "none" /\ cur'.h = "show"
    \/ pc["fg"] = "ms_map2" /\ pc'["fg"] \notin {"ms_map2", "exit"}

\* The GUI thread, inside Show, issues the activate command in this step.
ShowIssuesActivate ==
    /\ pc["fg"] \in {"s_act", "ms_act1", "ms_act2"}
    /\ pc'["fg"] \notin {pc["fg"], "exit"}

\* C17: Show issues map and activate commands only for a known handle, and
\* the activate command only after the map command: the position of the
\* activate command is reached by a map command only.
C17_MapThenActivate ==
    [][ /\ (ShowIssuesMap \/ ShowIssuesActivate) => Truthy(window_id[CallbackApp])
        /\ (pc'["fg"] \in {"s_act", "ms_act1", "ms_act2"} /\ pc'["fg"] # pc["fg"])
               => ShowIssuesMap ]_vars

\* A window handle is resolved anew in this step: the lookup of a launch, the
\* lookup of on_show_app after the commands on the cached handle failed, or
\* the lookup on_hide_app begins with.
Resolves ==
    \/ \E t \in Threads : pc[t] = "l_store" /\ pc'[t] \notin {"l_store", "exit"}
    \/ pc["fg"] = "ms_find" /\ pc'["fg"] \notin {"ms_find", "exit"}
    \/ /\ variant = "multi" /\ MenuReady /\ pc'["fg"] \in {"idle", "mh_min"}
       /\ UNCHANGED <<procs, windows, process>>

\* C18: a stored window handle changes only where it is resolved anew; the
\* exit of the process, the closing of the window, a pass of the poll loop
\* that finds the process alive, and Show on a live process and Hide in
\* tray_wrapper and minimize_to_tray_wrapper leave it as it was.
C18_HandleChangesOnlyAtLookup ==
    [][ window_id' # window_id => Resolves ]_vars

\* C18 witness: the process has exited and its window is gone, no launch is
\* under way, and the handle resolved for it is still stored.
C18_Witness ==
    /\ Single /\ pc["fg"] = "idle" /\ pc["bg"] = "poll"
    /\ ~IsRunning(process[1]) /\ windows = <<>>
    /\ window_id[1] = WidOf(process[1])

\* C19: every child process that was started and has not exited is the one
\* its application's process handle holds; so an application has at most one
\* live child and none is orphaned.
C19_NoOrphan ==
    \A n \in 1..Len(procs) : IsRunning(n) => process[procs[n].app] = n

\* No thread is inside launch_process.
NoLaunchInProgress ==
    \A t \in Threads :
        /\ pc[t] \notin {"l_popen", "l_pid", "l_find", "l_store", "l_clear"}
        /\ pc[t] \in {"m_chk", "m_min", "m_unmap"} => ~InLaunch(t)

\* C20: in tray_wrapper and minimize_to_tray_wrapper, whenever no launch is
\* in progress the recorded PID is that of the process the process handle
\* holds, and a window handle that was looked up by PID is the handle of a
\* window of that process.
C20_PidAndHandleOfProcess ==
    (Single /\ procs # <<>> /\ loop # "ended" /\ NoLaunchInProgress) =>
        /\ pid = PidOf(process[1])
        /\ (wm_class[1] = <<>> /\ Truthy(window_id[1])) =>
               window_id[1] = WidOf(process[1])

\* C21: once Quit has asked the main loop to terminate, no child process
\* started by the wrapper is running without having been sent a terminate or
\* kill request, and no child process is started from then on.
C21_NothingLeftAfterQuit ==
    /\ [] ("quit" \in asked => \A n \in 1..Len(procs) : procs[n].st # "alive")
    /\ [][ "quit" \in asked => Len(procs') = Len(procs) ]_vars

====
